---- MODULE Spec2Model ----
(***************************************************************************)
(* State-machine model of CausalViewStore (the reactive selection          *)
(* coordinator of the causal-graph exploration view).                      *)
(*                                                                         *)
(* Scheduling: every public method is a mobx action and every reaction     *)
(* effect runs synchronously when the outermost action ends; the rxjs      *)
(* Subject delivers next() synchronously to its subscriber.  One action of *)
(* the model is therefore one public call (or one upstream change)         *)
(* together with all the reactions it triggers.                            *)
(***************************************************************************)
EXTENDS Integers, Sequences, FiniteSets, TLC

\* ---------------------------------------------------------------- bounds
\* number of distinct upstream merged-model identities besides identity 0
MaxModel == 1
\* longest listener list a caller builds for one event
MaxListeners == 3
\* number of automatic-detection requests the user issues
MaxRequests == 3

\* ------------------------------------------------------------- enum values
NONE == "0"
SINGLE == "1"
DOUBLE == "2"
MULTIPLE == "n"
\* a value outside the NodeSelectionMode enum (reaches the default branches)
UnknownMode == "?"

NodeSelectionMode == {NONE, SINGLE, DOUBLE, MULTIPLE}
ModeInputs == NodeSelectionMode \cup {UnknownMode}

AUTO_VIS == "AutoVis"
HYPOTHESIS_TEST == "HypothesisTest"
WHAT_IF == "WhatIf"
CROSS_FILTER == "CrossFilter"
CAUSAL_INSIGHT == "CausalInsight"
GRAPHIC_WALKER == "GraphicWalker"
PREDICT == "predict"
\* a value outside the ExplorationKey enum (the commented-out member)
UnknownKey == "CausalBlame"

ExplorationKey ==
    {AUTO_VIS, HYPOTHESIS_TEST, WHAT_IF, CROSS_FILTER, CAUSAL_INSIGHT, GRAPHIC_WALKER, PREDICT}
KeyInputs == ExplorationKey \cup {UnknownKey}

\* field identifiers the callers and the upstream store may use
Fids == {"a", "b", "c"}

\* an IFieldMeta object: opaque to the store except for its fid
IFieldMeta == [fid : Fids]
FieldOf(f) == [fid |-> f]

\* the entity snapshots causalStore.fields may hold (fids unique in a snapshot)
Snapshots == SUBSET IFieldMeta

\* the keys of CausalViewEventListeners
EventNames == {"nodeClick", "nodeDoubleClick"}

\* the function references callers register as listeners
Callbacks == {"f", "g"}

\* return values of toggleNodeSelected / selectNode
RetTrue == "true"
RetFalse == "false"
RetUndefined == "undefined"

VARIABLES
    explorationKey,          \* this.explorationKey
    graphNodeSelectionMode,  \* this.graphNodeSelectionMode
    selectedNodes,           \* this._selectedNodes
    fields,                  \* latest value of fields$ (causalStore.fields)
    mergedPag,               \* identity of causalStore.model.mergedPag
    mobxReactions,           \* TRUE while the three mobx reactions are not disposed
    rxReactions,             \* TRUE while the selectedFidArr$ subscription is live
    call,                    \* the operation performed by the last step
    before,                  \* mode and _selectedNodes when that operation started
    ret,                     \* what that operation returned
    emitted,                 \* the values that step passed to selectedFidArr$.next
    listeners,               \* this.listeners
    registered,              \* this.listeners when the last operation started
    invoked,                 \* the listener invocations made by the last step, in order
    displayPreview,          \* FDBatch: the displayPreview state
    preview,                 \* FDBatch: the preview state
    pendingRef,              \* FDBatch: pendingRef.current (0 is undefined)
    requests,                \* FDBatch: the promises made by generateFDFromAutoDetection
    effectDue,               \* FDBatch: the [displayPreview] effect is scheduled, not yet run
    fdLast,                  \* FDBatch: the handler or callback run by the last step
    firing                   \* the for...of loop of a fireEvent call in progress

storeVars == <<explorationKey, graphNodeSelectionMode, selectedNodes, fields, mergedPag,
               mobxReactions, rxReactions, call, before, ret, emitted>>

listenerVars == <<listeners, registered, invoked>>

fdVars == <<displayPreview, preview, pendingRef, requests, effectDue, fdLast>>

vars == <<storeVars, listenerVars, fdVars, firing>>

\* ------------------------------------------------------------ pure helpers
Last(s) == s[Len(s)]

Fid(nodes) == [i \in 1..Len(nodes) |-> nodes[i].fid]

InSeq(x, s) == \E i \in 1..Len(s) : s[i] = x

\* Array.prototype.findIndex (1-based; 0 stands for -1)
findIndex(s, x) ==
    IF InSeq(x, s) THEN CHOOSE i \in 1..Len(s) : s[i] = x /\ \A j \in 1..(i-1) : s[j] # x
    ELSE 0

\* Array.prototype.splice(i, 1)
splice(s, i) == SubSeq(s, 1, i-1) \o SubSeq(s, i+1, Len(s))

\* Array.prototype.filter(x => x !== v)
filterOut(s, v) == SelectSeq(s, LAMBDA x : x # v)

\* fields.find(which => which.fid === fid): the set of matches (empty = undefined)
find(flds, fid) == {f \in flds : f.fid = fid}

\* a reduce that gives up on the first identifier without a field
RECURSIVE ResolveAbortOnMissing(_, _)
ResolveAbortOnMissing(fidArr, flds) ==
    IF fidArr = <<>> THEN <<>>
    ELSE LET f == find(flds, Head(fidArr))
         IN IF f # {} THEN <<CHOOSE x \in f : TRUE>> \o ResolveAbortOnMissing(Tail(fidArr), flds)
            ELSE <<>>

\* the reduce of the selectedFidArr$ subscription
RECURSIVE Resolve(_, _)
Resolve(fidArr, flds) ==
    IF fidArr = <<>> THEN <<>>
    ELSE LET nodes == Resolve(SubSeq(fidArr, 1, Len(fidArr) - 1), flds)
             f == find(flds, Last(fidArr))
         IN IF f # {} THEN nodes \o <<CHOOSE x \in f : TRUE>> ELSE nodes

\* get selectedField(): this._selectedNodes.at(0) ?? null
selectedFieldFid(nodes) == IF Len(nodes) > 0 THEN {nodes[1].fid} ELSE {}

\* a mode reaction that keeps the first element instead of the last
ModeReactionKeepFirst(mode, nodes) ==
    CASE mode \in {SINGLE, DOUBLE} ->
            IF Len(nodes) = 0 THEN <<>> ELSE SubSeq(nodes, 1, 1)
      [] mode = MULTIPLE -> nodes
      [] OTHER -> <<>>

\* effect of the graphNodeSelectionMode reaction on this._selectedNodes
ModeReaction(mode, nodes) ==
    CASE mode \in {SINGLE, DOUBLE} ->
            IF Len(nodes) = 0 THEN <<>> ELSE SubSeq(nodes, Len(nodes), Len(nodes))
      [] mode = MULTIPLE -> nodes
      [] OTHER -> <<>>

\* a key table that files HYPOTHESIS_TEST under SINGLE
KeyReactionHypothesisSingle(key) ==
    CASE key \in {CAUSAL_INSIGHT, PREDICT, HYPOTHESIS_TEST} -> SINGLE
      [] key \in {AUTO_VIS, CROSS_FILTER} -> MULTIPLE
      [] OTHER -> NONE

\* effect of the explorationKey reaction on this.graphNodeSelectionMode
KeyReaction(key) ==
    CASE key \in {CAUSAL_INSIGHT, PREDICT} -> SINGLE
      [] key \in {AUTO_VIS, CROSS_FILTER} -> MULTIPLE
      [] key = HYPOTHESIS_TEST -> DOUBLE
      [] OTHER -> NONE

\* a subscription that leaves the emitted value pending
DeliverPending(live, emits, flds, nodes) == nodes

\* the selectedFidArr$ subscription: each emitted value is resolved against the
\* latest fields, in order; with the subscription gone next() reaches nobody
RECURSIVE Deliver(_, _, _, _)
Deliver(live, emits, flds, nodes) ==
    IF ~live \/ emits = <<>> THEN nodes
    ELSE Deliver(live, Tail(emits), flds, Resolve(Head(emits), flds))

\* ------------------------------------------------------------ listener table
\* the initial value of this.listeners, and what destroy leaves
NoListeners == [eventName \in EventNames |-> <<>>]

\* removeEventListener that drops only the first matching reference
removeFirstFrom(cbs, callback) ==
    IF InSeq(callback, cbs) THEN splice(cbs, findIndex(cbs, callback)) ELSE cbs

\* this.listeners[eventName].filter(cb => cb !== callback)
removeFrom(cbs, callback) == filterOut(cbs, callback)

\* a loop that walks the listener list from its end
invokeAllBackwards(cbs, node) ==
    [i \in 1..Len(cbs) |-> [callback |-> cbs[Len(cbs) + 1 - i], node |-> node]]

\* the loop of fireEvent: cb(...args) for each cb of the list, in order
invokeAll(cbs, node) ==
    [i \in 1..Len(cbs) |-> [callback |-> cbs[i], node |-> node]]

\* no fireEvent call is running
NotFiring == [active |-> FALSE]

\* the iterator of for (const cb of this.listeners[eventName]): the array object
\* it was created on (arr), the index of the next element (pos), and whether
\* that array object is still the one held in this.listeners[eventName] (attached)
NewIterator(eventName, node, cbs) ==
    [active |-> TRUE, eventName |-> eventName, node |-> node,
     arr |-> cbs, pos |-> 1, attached |-> TRUE]

\* push(callback) on this.listeners[eventName] changes the array in place: an
\* iterator on that array object sees the new element
IteratorPush(it, eventName, callback) ==
    IF it.eventName = eventName /\ it.attached
    THEN [it EXCEPT !.arr = Append(@, callback)]
    ELSE it

\* this.listeners[eventName] = <a new array>: the iterator keeps the old array
IteratorReplace(it, eventName) ==
    IF it.eventName = eventName THEN [it EXCEPT !.attached = FALSE] ELSE it

\* each yields [ret |-> returned value, next |-> values passed to selectedFidArr$.next]
\* a SINGLE toggle that never deselects
ToggleSingleNoDeselect(nodes, fid) ==
    [ret |-> RetTrue, next |-> << <<fid>> >>]

ToggleSingle(nodes, fid) ==
    IF selectedFieldFid(nodes) = {fid}
    THEN [ret |-> RetFalse, next |-> << <<>> >>]
    ELSE [ret |-> RetTrue, next |-> << <<fid>> >>]

SelectSingle(nodes, fid) ==
    IF selectedFieldFid(nodes) = {fid}
    THEN [ret |-> RetFalse, next |-> << <<>> >>]
    ELSE [ret |-> RetTrue, next |-> << <<fid>> >>]

\* a DOUBLE branch that reports true when it refuses a third member
ToggleDoubleRefusalTrue(nodes, fid) ==
    IF InSeq(fid, Fid(nodes))
    THEN [ret |-> RetFalse, next |-> << filterOut(Fid(nodes), fid) >>]
    ELSE IF Len(nodes) = 0
    THEN [ret |-> RetTrue, next |-> << <<fid>> >>]
    ELSE IF Len(nodes) # 1
    THEN [ret |-> RetTrue, next |-> <<>>]
    ELSE [ret |-> RetFalse, next |-> << <<nodes[1].fid, fid>> >>]

\* a DOUBLE branch that lets a third member in
ToggleDoubleUncapped(nodes, fid) ==
    IF InSeq(fid, Fid(nodes))
    THEN [ret |-> RetFalse, next |-> << filterOut(Fid(nodes), fid) >>]
    ELSE IF Len(nodes) = 0
    THEN [ret |-> RetTrue, next |-> << <<fid>> >>]
    ELSE [ret |-> RetFalse, next |-> << Append(Fid(nodes), fid) >>]

ToggleDouble(nodes, fid) ==
    IF InSeq(fid, Fid(nodes))
    THEN [ret |-> RetFalse, next |-> << filterOut(Fid(nodes), fid) >>]
    ELSE IF Len(nodes) = 0
    THEN [ret |-> RetTrue, next |-> << <<fid>> >>]
    ELSE IF Len(nodes) # 1
    THEN [ret |-> RetFalse, next |-> <<>>]
    ELSE [ret |-> RetFalse, next |-> << <<nodes[1].fid, fid>> >>]

\* a MULTIPLE toggle that puts a new identifier in front
ToggleMultiplePrepend(nodes, fid) ==
    LET selectedFidArr == Fid(nodes)
        matchedIndex == findIndex(selectedFidArr, fid)
    IN [ret |-> RetUndefined,
        next |-> << IF matchedIndex # 0 THEN splice(selectedFidArr, matchedIndex)
                    ELSE <<fid>> \o selectedFidArr >>]

ToggleMultiple(nodes, fid) ==
    LET selectedFidArr == Fid(nodes)
        matchedIndex == findIndex(selectedFidArr, fid)
    IN [ret |-> RetUndefined,
        next |-> << IF matchedIndex # 0 THEN splice(selectedFidArr, matchedIndex)
                    ELSE Append(selectedFidArr, fid) >>]

\* a MULTIPLE select that pushes without looking for the identifier
SelectMultipleAlwaysPush(nodes, fid) ==
    [ret |-> RetUndefined, next |-> << Append(Fid(nodes), fid) >>]

SelectMultiple(nodes, fid) ==
    LET selectedFidArr == Fid(nodes)
        matchedIndex == findIndex(selectedFidArr, fid)
    IN [ret |-> RetUndefined,
        next |-> << IF matchedIndex = 0 THEN Append(selectedFidArr, fid)
                    ELSE selectedFidArr >>]

Disabled == [ret |-> RetUndefined, next |-> <<>>]

toggleResult(mode, nodes, fid) ==
    CASE mode = SINGLE -> ToggleSingle(nodes, fid)
      [] mode = DOUBLE -> ToggleDouble(nodes, fid)
      [] mode = MULTIPLE -> ToggleMultiple(nodes, fid)
      [] OTHER -> Disabled

\* a selectNode that treats DOUBLE like toggleNodeSelected does
selectResultWithDouble(mode, nodes, fid) ==
    CASE mode = SINGLE -> SelectSingle(nodes, fid)
      [] mode = DOUBLE -> ToggleDouble(nodes, fid)
      [] mode = MULTIPLE -> SelectMultiple(nodes, fid)
      [] OTHER -> Disabled

selectResult(mode, nodes, fid) ==
    CASE mode = SINGLE -> SelectSingle(nodes, fid)
      [] mode = MULTIPLE -> SelectMultiple(nodes, fid)
      [] OTHER -> Disabled

\* -------------------------------------------------------------------- FDBatch
\* values of the preview state: null, the list generated from external
\* information, the empty list, the list detected by request r
PreviewNull == "null"
PreviewExtInfo == "generatedFDFromExtInfo"
PreviewEmpty == "[]"
Detected(r) == "detected by request " \o ToString(r)

\* a promise made by generateFDFromAutoDetection: "inflight" until it settles,
\* "settled" once its then/catch callback has run, "done" after its finally
\* callback; closed records that the preview was closed after it was made
NewRequest == [state |-> "inflight", closed |-> FALSE]

\* a then/catch/finally chain is between two of its callbacks (microtasks run
\* before any other task)
MicrotaskPending == \E r \in 1..Len(requests) : requests[r].state = "settled"

\* React runs a scheduled passive effect before it handles the next user event
UserEventReady == ~effectDue /\ ~MicrotaskPending

\* the body of the [displayPreview] effect
EffectOnPendingRef(display, pending) == IF ~display THEN 0 ELSE pending

\* the guard of the then and catch callbacks
IsCurrent(r, pending) == r = pending

\* ------------------------------------------------------------------- state
Init ==
    /\ explorationKey = AUTO_VIS
    /\ graphNodeSelectionMode = MULTIPLE
    /\ selectedNodes = <<>>
    /\ fields \in Snapshots
    /\ mergedPag = 0
    /\ mobxReactions = TRUE
    /\ rxReactions = TRUE
    /\ call = [name |-> "constructor", arg |-> "-"]
    /\ before = [mode |-> MULTIPLE, nodes |-> <<>>]
    /\ ret = RetUndefined
    /\ emitted = <<>>
    /\ listeners = NoListeners
    /\ registered = NoListeners
    /\ invoked = <<>>
    /\ displayPreview = FALSE
    /\ preview = PreviewNull
    /\ pendingRef = 0
    /\ requests = <<>>
    /\ effectDue = FALSE
    /\ fdLast = [name |-> "mount", req |-> 0, committed |-> FALSE]
    /\ firing = NotFiring

\* the selection operations neither touch the listener table nor call a listener
ListenersUntouched ==
    /\ listeners' = listeners
    /\ registered' = listeners
    /\ invoked' = <<>>

\* ----------------------------------------------------------------- actions
\* a setNodeSelectionMode whose reaction writes the clamped identifiers to
\* selectedFidArr$ instead of assigning this._selectedNodes
setNodeSelectionModeThroughChannel(selectionMode) ==
    LET next == IF mobxReactions /\ selectionMode # graphNodeSelectionMode
                THEN << Fid(ModeReaction(selectionMode, selectedNodes)) >>
                ELSE <<>>
    IN /\ graphNodeSelectionMode' = selectionMode
       /\ selectedNodes' = Deliver(rxReactions, next, fields, selectedNodes)
       /\ call' = [name |-> "setNodeSelectionMode", arg |-> selectionMode]
       /\ before' = [mode |-> graphNodeSelectionMode, nodes |-> selectedNodes]
       /\ ret' = RetUndefined
       /\ emitted' = next
       /\ ListenersUntouched
       /\ UNCHANGED <<fdVars, firing>>
       /\ UNCHANGED <<explorationKey, fields, mergedPag, mobxReactions, rxReactions>>

\* setNodeSelectionMode, then the graphNodeSelectionMode reaction if the value changed
setNodeSelectionMode(selectionMode) ==
    /\ graphNodeSelectionMode' = selectionMode
    /\ selectedNodes' =
          IF mobxReactions /\ selectionMode # graphNodeSelectionMode
          THEN ModeReaction(selectionMode, selectedNodes)
          ELSE selectedNodes
    /\ call' = [name |-> "setNodeSelectionMode", arg |-> selectionMode]
    /\ before' = [mode |-> graphNodeSelectionMode, nodes |-> selectedNodes]
    /\ ret' = RetUndefined
    /\ emitted' = <<>>
    /\ ListenersUntouched
    /\ UNCHANGED <<fdVars, firing>>
    /\ UNCHANGED <<explorationKey, fields, mergedPag, mobxReactions, rxReactions>>

\* a setExplorationKey whose reaction also runs when the key is set to the value
\* it already has
setExplorationKeyEager(key) ==
    LET mode == IF mobxReactions THEN KeyReaction(key) ELSE graphNodeSelectionMode
    IN /\ explorationKey' = key
       /\ graphNodeSelectionMode' = mode
       /\ selectedNodes' =
             IF mobxReactions /\ mode # graphNodeSelectionMode
             THEN ModeReaction(mode, selectedNodes)
             ELSE selectedNodes
       /\ call' = [name |-> "setExplorationKey", arg |-> key]
       /\ before' = [mode |-> graphNodeSelectionMode, nodes |-> selectedNodes]
       /\ ret' = RetUndefined
       /\ emitted' = <<>>
       /\ ListenersUntouched
       /\ UNCHANGED <<fdVars, firing>>
       /\ UNCHANGED <<fields, mergedPag, mobxReactions, rxReactions>>

\* setExplorationKey, then the explorationKey reaction if the value changed, then
\* the graphNodeSelectionMode reaction if that changed the mode
setExplorationKey(key) ==
    LET mode == IF mobxReactions /\ key # explorationKey
                THEN KeyReaction(key) ELSE graphNodeSelectionMode
    IN /\ explorationKey' = key
       /\ graphNodeSelectionMode' = mode
       /\ selectedNodes' =
             IF mobxReactions /\ mode # graphNodeSelectionMode
             THEN ModeReaction(mode, selectedNodes)
             ELSE selectedNodes
       /\ call' = [name |-> "setExplorationKey", arg |-> key]
       /\ before' = [mode |-> graphNodeSelectionMode, nodes |-> selectedNodes]
       /\ ret' = RetUndefined
       /\ emitted' = <<>>
       /\ ListenersUntouched
       /\ UNCHANGED <<fdVars, firing>>
       /\ UNCHANGED <<fields, mergedPag, mobxReactions, rxReactions>>

\* a toggleNodeSelected that reports the toggle to the nodeClick listeners
toggleNodeSelectedNotifying(fid) ==
    LET r == toggleResult(graphNodeSelectionMode, selectedNodes, fid)
    IN /\ selectedNodes' = Deliver(rxReactions, r.next, fields, selectedNodes)
       /\ call' = [name |-> "toggleNodeSelected", arg |-> fid]
       /\ before' = [mode |-> graphNodeSelectionMode, nodes |-> selectedNodes]
       /\ ret' = r.ret
       /\ emitted' = r.next
       /\ listeners' = listeners
       /\ registered' = listeners
       /\ invoked' = invokeAll(listeners["nodeClick"], FieldOf(fid))
       /\ UNCHANGED <<fdVars, firing>>
       /\ UNCHANGED <<explorationKey, graphNodeSelectionMode, fields, mergedPag,
                      mobxReactions, rxReactions>>

toggleNodeSelected(fid) ==
    LET r == toggleResult(graphNodeSelectionMode, selectedNodes, fid)
    IN /\ selectedNodes' = Deliver(rxReactions, r.next, fields, selectedNodes)
       /\ call' = [name |-> "toggleNodeSelected", arg |-> fid]
       /\ before' = [mode |-> graphNodeSelectionMode, nodes |-> selectedNodes]
       /\ ret' = r.ret
       /\ emitted' = r.next
       /\ ListenersUntouched
       /\ UNCHANGED <<fdVars, firing>>
       /\ UNCHANGED <<explorationKey, graphNodeSelectionMode, fields, mergedPag,
                      mobxReactions, rxReactions>>

selectNode(fid) ==
    LET r == selectResult(graphNodeSelectionMode, selectedNodes, fid)
    IN /\ selectedNodes' = Deliver(rxReactions, r.next, fields, selectedNodes)
       /\ call' = [name |-> "selectNode", arg |-> fid]
       /\ before' = [mode |-> graphNodeSelectionMode, nodes |-> selectedNodes]
       /\ ret' = r.ret
       /\ emitted' = r.next
       /\ ListenersUntouched
       /\ UNCHANGED <<fdVars, firing>>
       /\ UNCHANGED <<explorationKey, graphNodeSelectionMode, fields, mergedPag,
                      mobxReactions, rxReactions>>

\* a clearSelected that leaves a MULTIPLE selection alone
clearSelectedUnlessMultiple ==
    LET next == IF graphNodeSelectionMode = MULTIPLE THEN <<>> ELSE << <<>> >>
    IN /\ selectedNodes' = Deliver(rxReactions, next, fields, selectedNodes)
       /\ call' = [name |-> "clearSelected", arg |-> "-"]
       /\ before' = [mode |-> graphNodeSelectionMode, nodes |-> selectedNodes]
       /\ ret' = RetUndefined
       /\ emitted' = next
       /\ ListenersUntouched
       /\ UNCHANGED <<fdVars, firing>>
       /\ UNCHANGED <<explorationKey, graphNodeSelectionMode, fields, mergedPag,
                      mobxReactions, rxReactions>>

clearSelected ==
    /\ selectedNodes' = Deliver(rxReactions, << <<>> >>, fields, selectedNodes)
    /\ call' = [name |-> "clearSelected", arg |-> "-"]
    /\ before' = [mode |-> graphNodeSelectionMode, nodes |-> selectedNodes]
    /\ ret' = RetUndefined
    /\ emitted' = << <<>> >>
    /\ ListenersUntouched
    /\ UNCHANGED <<fdVars, firing>>
    /\ UNCHANGED <<explorationKey, graphNodeSelectionMode, fields, mergedPag,
                   mobxReactions, rxReactions>>

\* a mergedPag reaction that re-emits the current identifiers instead of []
MergedPagChangeKeeps(pag) ==
    LET next == IF mobxReactions /\ pag # mergedPag
                THEN << Fid(selectedNodes) >> ELSE <<>>
    IN /\ mergedPag' = pag
       /\ selectedNodes' = Deliver(rxReactions, next, fields, selectedNodes)
       /\ call' = [name |-> "mergedPag", arg |-> "-"]
       /\ before' = [mode |-> graphNodeSelectionMode, nodes |-> selectedNodes]
       /\ ret' = RetUndefined
       /\ emitted' = next
       /\ ListenersUntouched
       /\ UNCHANGED <<fdVars, firing>>
       /\ UNCHANGED <<explorationKey, graphNodeSelectionMode, fields,
                      mobxReactions, rxReactions>>

\* the upstream store assigns causalStore.model.mergedPag; the mergedPag reaction
\* runs if the identity changed
MergedPagChange(pag) ==
    LET next == IF mobxReactions /\ pag # mergedPag THEN << <<>> >> ELSE <<>>
    IN /\ mergedPag' = pag
       /\ selectedNodes' = Deliver(rxReactions, next, fields, selectedNodes)
       /\ call' = [name |-> "mergedPag", arg |-> "-"]
       /\ before' = [mode |-> graphNodeSelectionMode, nodes |-> selectedNodes]
       /\ ret' = RetUndefined
       /\ emitted' = next
       /\ ListenersUntouched
       /\ UNCHANGED <<fdVars, firing>>
       /\ UNCHANGED <<explorationKey, graphNodeSelectionMode, fields,
                      mobxReactions, rxReactions>>

\* a snapshot change that re-resolves the selection, as combineLatest would
FieldsChangeReResolves(snapshot) ==
    /\ snapshot # fields
    /\ fields' = snapshot
    /\ selectedNodes' = Deliver(rxReactions, << Fid(selectedNodes) >>, snapshot, selectedNodes)
    /\ call' = [name |-> "fields", arg |-> "-"]
    /\ before' = [mode |-> graphNodeSelectionMode, nodes |-> selectedNodes]
    /\ ret' = RetUndefined
    /\ emitted' = <<>>
    /\ ListenersUntouched
    /\ UNCHANGED <<fdVars, firing>>
    /\ UNCHANGED <<explorationKey, graphNodeSelectionMode, mergedPag,
                   mobxReactions, rxReactions>>

\* the upstream store publishes a new entity snapshot; withLatestFrom only records it
FieldsChange(snapshot) ==
    /\ snapshot # fields
    /\ fields' = snapshot
    /\ call' = [name |-> "fields", arg |-> "-"]
    /\ before' = [mode |-> graphNodeSelectionMode, nodes |-> selectedNodes]
    /\ ret' = RetUndefined
    /\ emitted' = <<>>
    /\ ListenersUntouched
    /\ UNCHANGED <<fdVars, firing>>
    /\ UNCHANGED <<explorationKey, graphNodeSelectionMode, selectedNodes, mergedPag,
                   mobxReactions, rxReactions>>

\* a destroy that forgets the stream subscription
destroyKeepsSubscription ==
    /\ mobxReactions' = FALSE
    /\ rxReactions' = rxReactions
    /\ listeners' = NoListeners
    /\ call' = [name |-> "destroy", arg |-> "-"]
    /\ before' = [mode |-> graphNodeSelectionMode, nodes |-> selectedNodes]
    /\ ret' = RetUndefined
    /\ emitted' = <<>>
    /\ registered' = listeners
    /\ invoked' = <<>>
    /\ UNCHANGED <<fdVars, firing>>
    /\ UNCHANGED <<explorationKey, graphNodeSelectionMode, selectedNodes, fields, mergedPag>>

destroy ==
    /\ mobxReactions' = FALSE
    /\ rxReactions' = FALSE
    /\ listeners' = NoListeners
    /\ call' = [name |-> "destroy", arg |-> "-"]
    /\ before' = [mode |-> graphNodeSelectionMode, nodes |-> selectedNodes]
    /\ ret' = RetUndefined
    /\ emitted' = <<>>
    /\ registered' = listeners
    /\ invoked' = <<>>
    /\ UNCHANGED <<fdVars, firing>>
    /\ UNCHANGED <<explorationKey, graphNodeSelectionMode, selectedNodes, fields, mergedPag>>

\* a call on the listener table leaves the selection state alone
StoreUntouched(c) ==
    /\ call' = c
    /\ before' = [mode |-> graphNodeSelectionMode, nodes |-> selectedNodes]
    /\ ret' = RetUndefined
    /\ emitted' = <<>>
    /\ UNCHANGED <<explorationKey, graphNodeSelectionMode, selectedNodes, fields,
                   mergedPag, mobxReactions, rxReactions>>

addEventListener(eventName, callback) ==
    /\ Len(listeners[eventName]) < MaxListeners
    /\ listeners' = [listeners EXCEPT ![eventName] = Append(@, callback)]
    /\ registered' = listeners
    /\ invoked' = <<>>
    /\ UNCHANGED <<fdVars, firing>>
    /\ StoreUntouched([name |-> "addEventListener", arg |-> eventName, callback |-> callback])

removeEventListener(eventName, callback) ==
    /\ listeners' = [listeners EXCEPT ![eventName] = removeFrom(@, callback)]
    /\ registered' = listeners
    /\ invoked' = <<>>
    /\ UNCHANGED <<fdVars, firing>>
    /\ StoreUntouched([name |-> "removeEventListener", arg |-> eventName, callback |-> callback])

fireEvent(eventName, node) ==
    /\ invoked' = invokeAll(listeners[eventName], node)
    /\ UNCHANGED <<fdVars, firing>>
    /\ listeners' = listeners
    /\ registered' = listeners
    /\ StoreUntouched([name |-> "fireEvent", arg |-> eventName, node |-> node])

\* ---------------------------------------------------------- FDBatch actions
FDBatchOnly == UNCHANGED <<storeVars, listenerVars, firing>>

generateFDFromExtInfo ==
    /\ UserEventReady
    /\ preview' = PreviewExtInfo
    /\ displayPreview' = TRUE
    /\ effectDue' = ~displayPreview
    /\ fdLast' = [name |-> "generateFDFromExtInfo", req |-> 0, committed |-> FALSE]
    /\ UNCHANGED <<pendingRef, requests>>
    /\ FDBatchOnly

generateFDFromAutoDetection ==
    /\ UserEventReady
    /\ Len(requests) < MaxRequests
    /\ requests' = Append(requests, NewRequest)
    /\ pendingRef' = Len(requests) + 1
    /\ displayPreview' = TRUE
    /\ effectDue' = ~displayPreview
    /\ fdLast' = [name |-> "generateFDFromAutoDetection", req |-> Len(requests) + 1,
                  committed |-> FALSE]
    /\ UNCHANGED preview
    /\ FDBatchOnly

\* what handleSubmit and handleCancel do to the component's state
ClosePreview(name) ==
    /\ UserEventReady
    /\ displayPreview
    /\ preview' = PreviewNull
    /\ displayPreview' = FALSE
    /\ effectDue' = TRUE
    /\ requests' = [r \in 1..Len(requests) |-> [requests[r] EXCEPT !.closed = TRUE]]
    /\ fdLast' = [name |-> name, req |-> 0, committed |-> FALSE]
    /\ UNCHANGED pendingRef
    /\ FDBatchOnly

handleSubmit == ClosePreview("handleSubmit")

handleCancel == ClosePreview("handleCancel")

\* the scheduled [displayPreview] effect runs
DisplayPreviewEffect ==
    /\ effectDue
    /\ ~MicrotaskPending
    /\ effectDue' = FALSE
    /\ pendingRef' = EffectOnPendingRef(displayPreview, pendingRef)
    /\ fdLast' = [name |-> "useEffect", req |-> 0, committed |-> FALSE]
    /\ UNCHANGED <<displayPreview, preview, requests>>
    /\ FDBatchOnly

\* promise r resolves (ok) or rejects: its then or catch callback runs; the
\* setPreview it may call makes React render, which first runs a scheduled effect
RequestSettles(r, ok) ==
    /\ requests[r].state = "inflight"
    /\ ~MicrotaskPending
    /\ requests' = [requests EXCEPT ![r].state = "settled"]
    /\ IF IsCurrent(r, pendingRef)
       THEN /\ preview' = IF ok THEN Detected(r) ELSE PreviewEmpty
            /\ effectDue' = FALSE
            /\ pendingRef' = IF effectDue
                              THEN EffectOnPendingRef(displayPreview, pendingRef)
                              ELSE pendingRef
       ELSE UNCHANGED <<preview, effectDue, pendingRef>>
    /\ fdLast' = [name |-> "settle", req |-> r, committed |-> IsCurrent(r, pendingRef)]
    /\ UNCHANGED displayPreview
    /\ FDBatchOnly

\* the finally callback of promise r
RequestFinally(r) ==
    /\ requests[r].state = "settled"
    /\ requests' = [requests EXCEPT ![r].state = "done"]
    /\ pendingRef' = 0
    /\ fdLast' = [name |-> "finally", req |-> r, committed |-> FALSE]
    /\ UNCHANGED <<displayPreview, preview, effectDue>>
    /\ FDBatchOnly

NextFDBatch ==
    \/ generateFDFromExtInfo
    \/ generateFDFromAutoDetection
    \/ handleSubmit
    \/ handleCancel
    \/ DisplayPreviewEffect
    \/ \E r \in 1..Len(requests), ok \in BOOLEAN : RequestSettles(r, ok)
    \/ \E r \in 1..Len(requests) : RequestFinally(r)

InitFDBatch == Init /\ fields = IFieldMeta

SpecFDBatch == InitFDBatch /\ [][NextFDBatch]_vars

\* ------------------------------------------- fireEvent with re-entrant callbacks
\* fireEvent is entered: the loop takes the iterator of the current array
fireEventEnter(eventName, node) ==
    /\ ~firing.active
    /\ firing' = NewIterator(eventName, node, listeners[eventName])
    /\ invoked' = <<>>
    /\ listeners' = listeners
    /\ registered' = listeners
    /\ UNCHANGED fdVars
    /\ StoreUntouched([name |-> "fireEvent", arg |-> eventName, node |-> node])

\* what one iteration of the loop does before the callback's body runs
InvokeNext ==
    /\ firing.active
    /\ firing.pos <= Len(firing.arr)
    /\ invoked' = Append(invoked, [callback |-> firing.arr[firing.pos], node |-> firing.node])
    /\ UNCHANGED <<explorationKey, graphNodeSelectionMode, selectedNodes, fields, mergedPag,
                   call, before, ret, emitted, registered, fdVars>>

\* the invoked callback does not call back into the store
callbackReturns ==
    /\ InvokeNext
    /\ firing' = [firing EXCEPT !.pos = @ + 1]
    /\ UNCHANGED <<listeners, mobxReactions, rxReactions>>

\* the invoked callback calls addEventListener(eventName, callback)
callbackAdds(eventName, callback) ==
    /\ InvokeNext
    /\ Len(listeners[eventName]) < MaxListeners
    /\ listeners' = [listeners EXCEPT ![eventName] = Append(@, callback)]
    /\ firing' = [IteratorPush(firing, eventName, callback) EXCEPT !.pos = @ + 1]
    /\ UNCHANGED <<mobxReactions, rxReactions>>

\* the invoked callback calls removeEventListener(eventName, callback)
callbackRemoves(eventName, callback) ==
    /\ InvokeNext
    /\ listeners' = [listeners EXCEPT ![eventName] = removeFrom(@, callback)]
    /\ firing' = [IteratorReplace(firing, eventName) EXCEPT !.pos = @ + 1]
    /\ UNCHANGED <<mobxReactions, rxReactions>>

\* the invoked callback calls destroy()
callbackDestroys ==
    /\ InvokeNext
    /\ mobxReactions' = FALSE
    /\ rxReactions' = FALSE
    /\ listeners' = NoListeners
    /\ firing' = [IteratorReplace(firing, firing.eventName) EXCEPT !.pos = @ + 1]

\* the iterator is exhausted: fireEvent returns
fireEventReturn ==
    /\ firing.active
    /\ firing.pos > Len(firing.arr)
    /\ firing' = NotFiring
    /\ UNCHANGED <<storeVars, listenerVars, fdVars>>

NextReentrant ==
    \/ \E e \in EventNames, cb \in Callbacks : ~firing.active /\ addEventListener(e, cb)
    \/ \E e \in EventNames, cb \in Callbacks : ~firing.active /\ removeEventListener(e, cb)
    \/ \E e \in EventNames : fireEventEnter(e, FieldOf("a"))
    \/ callbackReturns
    \/ \E e \in EventNames, cb \in Callbacks : callbackAdds(e, cb)
    \/ \E e \in EventNames, cb \in Callbacks : callbackRemoves(e, cb)
    \/ callbackDestroys
    \/ fireEventReturn

InitReentrant == Init /\ fields = IFieldMeta

SpecReentrant == InitReentrant /\ [][NextReentrant]_vars

Next ==
    \/ \E m \in ModeInputs : setNodeSelectionMode(m)
    \/ \E k \in KeyInputs : setExplorationKey(k)
    \/ \E f \in Fids : toggleNodeSelected(f)
    \/ \E f \in Fids : selectNode(f)
    \/ clearSelected
    \/ \E p \in 0..MaxModel : MergedPagChange(p)
    \/ \E s \in Snapshots : FieldsChange(s)
    \/ destroy

Spec == Init /\ [][Next]_vars

\* the listener table on its own: callers register, unregister and fire
NextListeners ==
    \/ \E e \in EventNames, cb \in Callbacks : addEventListener(e, cb)
    \/ \E e \in EventNames, cb \in Callbacks : removeEventListener(e, cb)
    \/ \E e \in EventNames, n \in IFieldMeta : fireEvent(e, n)
    \/ destroy

SpecListeners == Init /\ [][NextListeners]_vars

\* the whole store driven by a small caller: one listener function, two field
\* identifiers, two keys, two modes, and snapshots that hold all fields or none
RegistryCallbacks == {"f"}
RegistryFids == {"a", "b"}
RegistryKeys == {AUTO_VIS, HYPOTHESIS_TEST}
RegistryModes == {SINGLE, MULTIPLE}
RegistrySnapshots == {{}, IFieldMeta}

InitRegistry == Init /\ fields = IFieldMeta

NextRegistry ==
    \/ \E e \in EventNames, cb \in RegistryCallbacks : addEventListener(e, cb)
    \/ \E e \in EventNames, cb \in RegistryCallbacks : removeEventListener(e, cb)
    \/ \E e \in EventNames : fireEvent(e, FieldOf("a"))
    \/ \E m \in RegistryModes : setNodeSelectionMode(m)
    \/ \E k \in RegistryKeys : setExplorationKey(k)
    \/ \E f \in RegistryFids : toggleNodeSelected(f)
    \/ \E f \in RegistryFids : selectNode(f)
    \/ clearSelected
    \/ \E p \in 0..MaxModel : MergedPagChange(p)
    \/ \E sn \in RegistrySnapshots : FieldsChange(sn)
    \/ destroy

SpecRegistry == InitRegistry /\ [][NextRegistry]_vars

\* ------------------------------------------------------------- properties
Live == mobxReactions /\ rxReactions

Called(name) == call.name = name

NoDup(s) == \A i, j \in 1..Len(s) : s[i] = s[j] => i = j

\* every member of nodes is an entity of the latest snapshot
InSnapshot(nodes) == \A i \in 1..Len(nodes) : nodes[i] \in fields

\* C1: on a live coordinator the resolved selection never has more members than
\* the cap of the current mode (NONE 0, SINGLE 1, DOUBLE 2, MULTIPLE unbounded;
\* a mode outside the enum behaves as NONE).
C1_CardinalityCap ==
    Live =>
        CASE graphNodeSelectionMode = SINGLE -> Len(selectedNodes) <= 1
          [] graphNodeSelectionMode = DOUBLE -> Len(selectedNodes) <= 2
          [] graphNodeSelectionMode = MULTIPLE -> TRUE
          [] OTHER -> Len(selectedNodes) = 0

\* a DOUBLE toggle was refused because the pair is complete
C1_Witness ==
    /\ Live
    /\ Called("toggleNodeSelected")
    /\ graphNodeSelectionMode = DOUBLE
    /\ Len(before.nodes) = 2
    /\ ~InSeq(call.arg, Fid(before.nodes))
    /\ Len(selectedNodes) = 2

\* C2: no identifier sequence passed to the selection id channel holds an
\* identifier twice, and the resolved selection never holds two entities with
\* the same identifier.
C2_Uniqueness ==
    /\ \A i \in 1..Len(emitted) : NoDup(emitted[i])
    /\ NoDup(Fid(selectedNodes))

\* selectNode of an identifier that is already one of two selected members
C2_Witness ==
    /\ Called("selectNode")
    /\ graphNodeSelectionMode = MULTIPLE
    /\ Len(before.nodes) >= 2
    /\ InSeq(call.arg, Fid(before.nodes))
    /\ emitted = << Fid(before.nodes) >>

\* C3: setNodeSelectionMode(m) with m different from the current mode, on a live
\* coordinator: SINGLE or DOUBLE keep only the previous last element (empty
\* stays empty), MULTIPLE leaves the selection as it was, NONE or a value
\* outside the enum empties it.
C3_ModeChangeClamps ==
    (Live /\ Called("setNodeSelectionMode") /\ call.arg # before.mode) =>
        /\ graphNodeSelectionMode = call.arg
        /\ selectedNodes =
              IF call.arg \in {SINGLE, DOUBLE}
              THEN (IF before.nodes = <<>> THEN <<>> ELSE << Last(before.nodes) >>)
              ELSE IF call.arg = MULTIPLE THEN before.nodes
              ELSE <<>>

\* MULTIPLE [a,b,c] -> SINGLE gives [c]
C3_Witness ==
    /\ Live
    /\ Called("setNodeSelectionMode")
    /\ call.arg = SINGLE
    /\ before.mode = MULTIPLE
    /\ Fid(before.nodes) = <<"a", "b", "c">>
    /\ Fid(selectedNodes) = <<"c">>

SingleCall == call.name \in {"toggleNodeSelected", "selectNode"}

\* the step just taken and the step being taken are both toggleNodeSelected(x)
\* in SINGLE mode on a live coordinator
TogglePairInSingle ==
    /\ Live
    /\ Called("toggleNodeSelected")
    /\ graphNodeSelectionMode = SINGLE
    /\ call' = call
    /\ Live'

\* C4 as stated: in SINGLE mode toggleNodeSelected(id) and selectNode(id) both
\* empty the selection and return false when id is the selected identifier, and
\* otherwise make the selection [id] and return true; and from any SINGLE-mode
\* state toggle(x) followed by toggle(x) ends with an empty selection.
C4_AsStated ==
    /\ [] ((Live /\ SingleCall /\ before.mode = SINGLE) =>
              IF selectedFieldFid(before.nodes) = {call.arg}
              THEN selectedNodes = <<>> /\ ret = RetFalse
              ELSE Fid(selectedNodes) = <<call.arg>> /\ ret = RetTrue)
    /\ [][TogglePairInSingle => selectedNodes' = <<>>]_vars

\* C4 amended: in SINGLE mode toggleNodeSelected(id) and selectNode(id) behave
\* identically: when id is the selected identifier both write [] (the selection
\* becomes empty) and return false; otherwise both write [id] and return true,
\* and the selection becomes [id] if id is in the latest entity snapshot and
\* empty if it is not.  From any SINGLE-mode state in which x is not the
\* selected identifier, toggle(x) followed by toggle(x) ends with an empty
\* selection.
C4_SingleToggle ==
    /\ [] ((Live /\ SingleCall /\ before.mode = SINGLE) =>
              IF selectedFieldFid(before.nodes) = {call.arg}
              THEN /\ emitted = << <<>> >>
                   /\ selectedNodes = <<>>
                   /\ ret = RetFalse
              ELSE /\ emitted = << <<call.arg>> >>
                   /\ ret = RetTrue
                   /\ selectedNodes =
                         IF FieldOf(call.arg) \in fields
                         THEN << FieldOf(call.arg) >> ELSE <<>>)
    /\ [][(TogglePairInSingle /\ selectedFieldFid(before.nodes) # {call.arg})
             => selectedNodes' = <<>>]_vars

\* selectNode of the selected identifier deselected it
C4_Witness ==
    /\ Live
    /\ Called("selectNode")
    /\ before.mode = SINGLE
    /\ selectedFieldFid(before.nodes) = {call.arg}
    /\ selectedNodes = <<>>
    /\ ret = RetFalse

\* what a DOUBLE toggle of id makes of a group with identifiers g
DoubleExpected(g, id) ==
    IF InSeq(id, g) THEN filterOut(g, id)
    ELSE IF Len(g) = 0 THEN <<id>>
    ELSE IF Len(g) = 1 THEN <<g[1], id>>
    ELSE g

DoubleRefused(g, id) == ~InSeq(id, g) /\ Len(g) >= 2

\* C5 as stated: in DOUBLE mode toggleNodeSelected(id) removes id from the group
\* if it is a member (the other member stays), makes an empty group [id], makes
\* a one-element group [g] into [g, id], and leaves a full group that does not
\* hold id unchanged without writing to the channel.
C5_AsStated ==
    (Live /\ Called("toggleNodeSelected") /\ before.mode = DOUBLE) =>
        /\ Fid(selectedNodes) = DoubleExpected(Fid(before.nodes), call.arg)
        /\ DoubleRefused(Fid(before.nodes), call.arg) =>
              (selectedNodes = before.nodes /\ emitted = <<>>)

\* C5 amended: in DOUBLE mode toggleNodeSelected(id) writes the group without id
\* if id is a member, [id] if the group is empty, [g, id] if the group is [g],
\* and the group becomes the resolution of what was written against the latest
\* entity snapshot (exactly the written identifiers when id and the members
\* are in that snapshot); a full group that does not hold id is unchanged and
\* nothing is written.
C5_DoubleToggle ==
    (Live /\ Called("toggleNodeSelected") /\ before.mode = DOUBLE) =>
        LET g == Fid(before.nodes)
            id == call.arg
        IN IF DoubleRefused(g, id)
           THEN selectedNodes = before.nodes /\ emitted = <<>>
           ELSE /\ emitted = << DoubleExpected(g, id) >>
                /\ selectedNodes = Resolve(DoubleExpected(g, id), fields)
                /\ (InSnapshot(before.nodes) /\ FieldOf(id) \in fields) =>
                      Fid(selectedNodes) = DoubleExpected(g, id)

\* toggle(c) on the group [a,b] changed nothing
C5_Witness ==
    /\ Live
    /\ Called("toggleNodeSelected")
    /\ before.mode = DOUBLE
    /\ call.arg = "c"
    /\ Fid(before.nodes) = <<"a", "b">>
    /\ Fid(selectedNodes) = <<"a", "b">>
    /\ emitted = <<>>

\* what a MULTIPLE toggle of id makes of a selection with identifiers g
MultipleExpected(g, id) ==
    IF InSeq(id, g) THEN filterOut(g, id) ELSE g \o <<id>>

\* C6 as stated: in MULTIPLE mode toggleNodeSelected(id) removes id if present,
\* keeping the other selected identifiers in order, otherwise appends id at
\* the end, and returns no completion signal.
C6_AsStated ==
    (Live /\ Called("toggleNodeSelected") /\ before.mode = MULTIPLE) =>
        /\ Fid(selectedNodes) = MultipleExpected(Fid(before.nodes), call.arg)
        /\ ret = RetUndefined

\* C6 amended: in MULTIPLE mode toggleNodeSelected(id) writes the selected
\* identifiers without id if id is present and with id appended otherwise,
\* returns no completion signal, and the selection becomes the resolution of
\* what was written against the latest entity snapshot (exactly the written
\* identifiers, in order, when id and the selected identifiers are in that
\* snapshot).
C6_MultipleToggle ==
    (Live /\ Called("toggleNodeSelected") /\ before.mode = MULTIPLE) =>
        LET g == Fid(before.nodes)
            id == call.arg
        IN /\ emitted = << MultipleExpected(g, id) >>
           /\ selectedNodes = Resolve(MultipleExpected(g, id), fields)
           /\ ret = RetUndefined
           /\ (InSnapshot(before.nodes) /\ FieldOf(id) \in fields) =>
                 Fid(selectedNodes) = MultipleExpected(g, id)

\* toggle(a) on [a,b] left [b]
C6_Witness ==
    /\ Live
    /\ Called("toggleNodeSelected")
    /\ before.mode = MULTIPLE
    /\ call.arg = "a"
    /\ Fid(before.nodes) = <<"a", "b">>
    /\ Fid(selectedNodes) = <<"b">>

\* s is t with some members left out, the rest in the same order
RECURSIVE IsSubsequence(_, _)
IsSubsequence(s, t) ==
    IF s = <<>> THEN TRUE
    ELSE IF t = <<>> THEN FALSE
    ELSE IF Head(s) = Head(t) THEN IsSubsequence(Tail(s), Tail(t))
    ELSE IsSubsequence(s, Tail(t))

\* the step just taken and the step being taken are both selectNode(id) in
\* MULTIPLE mode on a live coordinator
SelectPairInMultiple ==
    /\ Live
    /\ Called("selectNode")
    /\ graphNodeSelectionMode = MULTIPLE
    /\ call' = call
    /\ Live'

\* C7 as stated: in MULTIPLE mode selectNode(id) appends id only if it is
\* absent, removes and reorders no selected identifier, and a second
\* selectNode(id) changes nothing.
C7_AsStated ==
    /\ [] ((Live /\ Called("selectNode") /\ before.mode = MULTIPLE) =>
              LET g == Fid(before.nodes)
              IN Fid(selectedNodes) =
                    IF InSeq(call.arg, g) THEN g ELSE g \o <<call.arg>>)
    /\ [][SelectPairInMultiple => selectedNodes' = selectedNodes]_vars

\* C7 amended: in MULTIPLE mode selectNode(id) writes the selected identifiers,
\* with id appended only if it is absent, and the selection becomes the
\* resolution of what was written against the latest entity snapshot: it never
\* removes or reorders a selected identifier that is in that snapshot, and
\* selectNode(id) applied twice leaves the same selection as applied once.
C7_MultipleSelect ==
    /\ [] ((Live /\ Called("selectNode") /\ before.mode = MULTIPLE) =>
              LET g == Fid(before.nodes)
                  w == IF InSeq(call.arg, g) THEN g ELSE g \o <<call.arg>>
              IN /\ emitted = << w >>
                 /\ selectedNodes = Resolve(w, fields)
                 /\ IsSubsequence(SelectSeq(before.nodes, LAMBDA n : n \in fields),
                                  selectedNodes)
                 /\ (InSnapshot(before.nodes) /\ FieldOf(call.arg) \in fields) =>
                       Fid(selectedNodes) = w)
    /\ [][SelectPairInMultiple => selectedNodes' = selectedNodes]_vars

\* selectNode(a) on [a,b] left [a,b]
C7_Witness ==
    /\ Live
    /\ Called("selectNode")
    /\ before.mode = MULTIPLE
    /\ call.arg = "a"
    /\ Fid(before.nodes) = <<"a", "b">>
    /\ Fid(selectedNodes) = <<"a", "b">>

\* the step being taken is a call the current mode disables
DisabledCall ==
    \/ /\ call'.name = "toggleNodeSelected"
       /\ graphNodeSelectionMode \in {NONE, UnknownMode}
    \/ /\ call'.name = "selectNode"
       /\ graphNodeSelectionMode \in {NONE, DOUBLE, UnknownMode}

\* C8: toggleNodeSelected in mode NONE (or a mode outside the enum) and
\* selectNode in mode NONE or DOUBLE (or a mode outside the enum) leave the
\* selection, the mode and the exploration key unchanged, write nothing to the
\* id channel and return undefined.
C8_DisabledNoOp ==
    [][DisabledCall =>
          /\ selectedNodes' = selectedNodes
          /\ graphNodeSelectionMode' = graphNodeSelectionMode
          /\ explorationKey' = explorationKey
          /\ emitted' = <<>>
          /\ ret' = RetUndefined]_vars

\* selectNode of a non-member in DOUBLE mode left the one-element group alone
C8_Witness ==
    /\ Live
    /\ Called("selectNode")
    /\ before.mode = DOUBLE
    /\ Len(before.nodes) = 1
    /\ ~InSeq(call.arg, Fid(before.nodes))
    /\ FieldOf(call.arg) \in fields
    /\ selectedNodes = before.nodes
    /\ emitted = <<>>
    /\ ret = RetUndefined

\* C9: after clearSelected() on a live coordinator the resolved selection is
\* empty whatever the mode and the prior selection were, and the mode is the
\* one it was.
C9_ClearEmpties ==
    (Live /\ Called("clearSelected")) =>
        /\ selectedNodes = <<>>
        /\ graphNodeSelectionMode = before.mode

\* clearSelected emptied a three-element MULTIPLE selection
C9_Witness ==
    /\ Live
    /\ Called("clearSelected")
    /\ before.mode = MULTIPLE
    /\ Len(before.nodes) = 3
    /\ selectedNodes = <<>>

\* C10: whenever the upstream merged-model identity changes on a live
\* coordinator the selection becomes empty, whatever the mode and the prior
\* selection, and the mode stays as it was.
C10_ModelChangeResets ==
    [][(Live /\ call'.name = "mergedPag" /\ mergedPag' # mergedPag) =>
          /\ selectedNodes' = <<>>
          /\ emitted' = << <<>> >>
          /\ graphNodeSelectionMode' = graphNodeSelectionMode]_vars

\* a model change emptied a complete DOUBLE pair
C10_Witness ==
    /\ Live
    /\ Called("mergedPag")
    /\ before.mode = DOUBLE
    /\ Len(before.nodes) = 2
    /\ InSnapshot(before.nodes)
    /\ emitted = << <<>> >>
    /\ selectedNodes = <<>>

\* the lookup table of the specification, section 4.3
TableMode(k) ==
    IF k = CAUSAL_INSIGHT \/ k = PREDICT THEN SINGLE
    ELSE IF k = AUTO_VIS \/ k = CROSS_FILTER THEN MULTIPLE
    ELSE IF k = HYPOTHESIS_TEST THEN DOUBLE
    ELSE NONE

\* what a change to mode m makes of the selection nodes (specification, 4.1)
Clamped(m, nodes) ==
    IF m = SINGLE \/ m = DOUBLE
    THEN (IF nodes = <<>> THEN <<>> ELSE << nodes[Len(nodes)] >>)
    ELSE IF m = MULTIPLE THEN nodes
    ELSE <<>>

\* C11: on a live coordinator every setExplorationKey that changes the key to k
\* leaves the mode at table(k) when it returns, and if the mode thereby changed
\* the selection is clamped or cleared as by setNodeSelectionMode (otherwise it
\* is left alone).
C11_KeyChangeSetsMode ==
    [][(Live /\ call'.name = "setExplorationKey" /\ explorationKey' # explorationKey) =>
          /\ graphNodeSelectionMode' = TableMode(explorationKey')
          /\ selectedNodes' =
                IF graphNodeSelectionMode' # graphNodeSelectionMode
                THEN Clamped(graphNodeSelectionMode', selectedNodes)
                ELSE selectedNodes]_vars

\* a change of key to HYPOTHESIS_TEST turned MULTIPLE [a,b,c] into DOUBLE [c]
C11_Witness ==
    /\ Live
    /\ Called("setExplorationKey")
    /\ call.arg = HYPOTHESIS_TEST
    /\ before.mode = MULTIPLE
    /\ Fid(before.nodes) = <<"a", "b", "c">>
    /\ graphNodeSelectionMode = DOUBLE
    /\ Fid(selectedNodes) = <<"c">>

\* C12 as stated: from any reachable live state, when setExplorationKey(k)
\* returns the mode is table(k), also when the key already was k.
C12_AsStated ==
    (Live /\ Called("setExplorationKey")) =>
        graphNodeSelectionMode = TableMode(call.arg)

\* C12 amended: when setExplorationKey(k) returns on a live coordinator the mode
\* is table(k) if k differs from the key it replaced (HYPOTHESIS_TEST gives
\* DOUBLE, a key outside the table gives NONE); if the key already was k the
\* mode is left as it was, so a mode set in between by setNodeSelectionMode
\* stays.  In the initial state (key AUTO_VIS, mode MULTIPLE) the mode is the
\* table's.
C12_KeyYieldsTableMode ==
    /\ [][(Live /\ call'.name = "setExplorationKey") =>
             graphNodeSelectionMode' =
                IF explorationKey' # explorationKey
                THEN TableMode(call'.arg)
                ELSE graphNodeSelectionMode]_vars
    /\ [](Called("constructor") => graphNodeSelectionMode = TableMode(explorationKey))

\* setExplorationKey of the key already set left a mode the table does not give
C12_Witness ==
    /\ Live
    /\ Called("setExplorationKey")
    /\ call.arg = HYPOTHESIS_TEST
    /\ before.mode = SINGLE
    /\ graphNodeSelectionMode = SINGLE

\* C13: the resolution of an emitted identifier sequence holds exactly the
\* entities of the latest snapshot whose identifier occurs in the sequence, in
\* the order of the sequence; an identifier without entity is left out and does
\* not keep the others from being resolved.
C13_Resolution ==
    (Live /\ emitted # <<>>) =>
        /\ InSnapshot(selectedNodes)
        /\ Fid(selectedNodes) =
              SelectSeq(emitted[Len(emitted)], LAMBDA id : \E f \in fields : f.fid = id)

\* three identifiers were written, the middle one has no entity
C13_Witness ==
    /\ Live
    /\ emitted # <<>>
    /\ Len(emitted[1]) = 3
    /\ FieldOf(emitted[1][2]) \notin fields
    /\ Fid(selectedNodes) = << emitted[1][1], emitted[1][3] >>

WritingCall == call.name \in {"toggleNodeSelected", "selectNode", "clearSelected"}

\* C14: when toggleNodeSelected, selectNode or clearSelected returns on a live
\* coordinator, selectedFieldGroup is the resolution of the identifier sequence
\* the call wrote against the latest entity snapshot (and what it was if the
\* call wrote nothing): no write is pending.
C14_WriteResolvedOnReturn ==
    (Live /\ WritingCall) =>
        selectedNodes =
            IF emitted = <<>> THEN before.nodes
            ELSE Resolve(emitted[Len(emitted)], fields)

\* a toggle rewrote a selection holding a member that had left the snapshot,
\* and the result is resolved against the snapshot as it is now
C14_Witness ==
    /\ Live
    /\ Called("toggleNodeSelected")
    /\ emitted # <<>>
    /\ Len(before.nodes) = 2
    /\ ~InSnapshot(before.nodes)
    /\ Len(selectedNodes) = 2
    /\ InSnapshot(selectedNodes)

\* C20: the report of toggleNodeSelected tells the outcomes apart: in DOUBLE
\* mode removing a member reports deselected (false), selecting into an empty
\* group reports selected (true), completing a pair and attempting a third
\* member report a no-op signal that is neither of the two; MULTIPLE and NONE
\* return undefined.
C20_ReportsDistinct ==
    Called("toggleNodeSelected") =>
        LET g == Fid(before.nodes)
        IN CASE before.mode = DOUBLE /\ InSeq(call.arg, g) -> ret = RetFalse
             [] before.mode = DOUBLE /\ ~InSeq(call.arg, g) /\ Len(g) = 0 -> ret = RetTrue
             [] before.mode = DOUBLE /\ ~InSeq(call.arg, g) /\ Len(g) > 0 ->
                    ret \notin {RetFalse, RetTrue}
             [] before.mode \in {MULTIPLE, NONE} -> ret = RetUndefined
             [] OTHER -> TRUE

OtherEvent(e) == CHOOSE o \in EventNames : o # e

\* how often x occurs in s
Count(s, x) == Cardinality({i \in 1..Len(s) : s[i] = x})

\* C15: fireEvent(kind, entity) invokes the callbacks registered for that kind
\* when it is called, once per registration, in registration order, each with
\* the entity, and nothing else (so none that is registered for the other kind
\* only); the callbacks here do not call back into the store.
C15_FireInvokesInOrder ==
    Called("fireEvent") =>
        LET cbs == registered[call.arg]
        IN /\ Len(invoked) = Len(cbs)
           /\ \A i \in 1..Len(invoked) :
                 invoked[i].callback = cbs[i] /\ invoked[i].node = call.node
           /\ listeners = registered

\* fireEvent ran g, f, g for one kind while the other kind's list holds f only
C15_Witness ==
    /\ Called("fireEvent")
    /\ registered[call.arg] = <<"g", "f", "g">>
    /\ registered[OtherEvent(call.arg)] = <<"f">>
    /\ Len(invoked) = 3
    /\ invoked[2].callback = "f"
    /\ invoked[3].node = call.node

\* C16: removeEventListener(kind, cb) removes every registration of cb for that
\* kind, keeps the other callbacks of the kind in their order, leaves the other
\* kind's list alone, and changes nothing when cb is not registered.
C16_RemoveAllMatching ==
    Called("removeEventListener") =>
        LET old == registered[call.arg]
            new == listeners[call.arg]
        IN /\ ~InSeq(call.callback, new)
           /\ IsSubsequence(new, old)
           /\ Len(new) = Len(old) - Count(old, call.callback)
           /\ listeners[OtherEvent(call.arg)] = registered[OtherEvent(call.arg)]
           /\ ~InSeq(call.callback, old) => listeners = registered

\* removing f from [f, g, f] left [g]
C16_Witness ==
    /\ Called("removeEventListener")
    /\ call.callback = "f"
    /\ registered[call.arg] = <<"f", "g", "f">>
    /\ listeners[call.arg] = <<"g">>
    /\ listeners[OtherEvent(call.arg)] = <<"f", "g">>

\* C17: only addEventListener, removeEventListener and destroy change the
\* listener table, and only fireEvent invokes a registered callback: toggle,
\* select, clear, mode and key changes, model and snapshot changes do neither.
C17_RegistryIndependent ==
    [][/\ listeners' # listeners =>
             call'.name \in {"addEventListener", "removeEventListener", "destroy"}
       /\ invoked' # <<>> => call'.name = "fireEvent"]_vars

\* a toggle changed the selection while both kinds had listeners, and none ran
C17_Witness ==
    /\ Live
    /\ Called("toggleNodeSelected")
    /\ selectedNodes # before.nodes
    /\ listeners["nodeClick"] # <<>>
    /\ listeners["nodeDoubleClick"] # <<>>
    /\ listeners = registered
    /\ invoked = <<>>

Destroyed == ~mobxReactions /\ ~rxReactions

\* C18: destroy() leaves no listener entry for either kind and no live
\* subscription, and after it no exploration-key change alters the mode, no
\* mode change alters the selection, and no toggle, select, clear, model change
\* or snapshot change alters the resolved selection.
C18_DestroyTearsDown ==
    /\ [](Called("destroy") => (listeners = NoListeners /\ Destroyed))
    /\ [][Destroyed =>
             /\ Destroyed'
             /\ selectedNodes' = selectedNodes
             /\ call'.name = "setExplorationKey" =>
                   graphNodeSelectionMode' = graphNodeSelectionMode]_vars

\* destroy emptied both listener lists of a store with a two-element selection
C18_Witness ==
    /\ Called("destroy")
    /\ registered["nodeClick"] # <<>>
    /\ registered["nodeDoubleClick"] # <<>>
    /\ listeners = NoListeners
    /\ Destroyed
    /\ Len(selectedNodes) = 2

\* C19: the result of a detection request (or the empty list when it fails) is
\* committed to the preview only if the request is the most recently issued one
\* and the preview has not been closed since the request was issued.
C19_StaleResultGuard ==
    (fdLast.name = "settle" /\ fdLast.committed) =>
        /\ fdLast.req = Len(requests)
        /\ ~requests[fdLast.req].closed

\* C21: setNodeSelectionMode works through the selection id channel: after a
\* change of the mode to SINGLE or DOUBLE on a live coordinator the resolved
\* selection is the resolution of [identifier of the previous last member]
\* against the latest entity snapshot, so a last member that has left the
\* snapshot is dropped.
C21_AsStated ==
    (Live /\ Called("setNodeSelectionMode") /\ call.arg # before.mode
          /\ call.arg \in {SINGLE, DOUBLE}) =>
        selectedNodes =
            Resolve(IF before.nodes = <<>> THEN <<>> ELSE << Last(before.nodes).fid >>,
                    fields)

\* C21 as it holds: the graphNodeSelectionMode reaction assigns the resolved
\* selection itself and writes nothing to the id channel; after a change of the
\* mode to SINGLE or DOUBLE on a live coordinator the resolved selection is
\* [previous last member] (empty if there was none), whether or not that member
\* is still in the latest entity snapshot.
C21_ModeChangeClampsDirectly ==
    (Live /\ Called("setNodeSelectionMode") /\ call.arg # before.mode
          /\ call.arg \in {SINGLE, DOUBLE}) =>
        /\ emitted = <<>>
        /\ selectedNodes = Clamped(call.arg, before.nodes)

\* a mode change kept a last member that had left the snapshot
C21_Witness ==
    /\ Live
    /\ Called("setNodeSelectionMode")
    /\ call.arg = DOUBLE
    /\ before.mode = MULTIPLE
    /\ Len(before.nodes) = 2
    /\ Len(selectedNodes) = 1
    /\ selectedNodes[1] = before.nodes[2]
    /\ ~InSnapshot(selectedNodes)

\* C22: a change of the entity snapshot leaves the resolved selection as it is;
\* the resolved selection changes only in a step that writes to the id channel,
\* and is then the resolution of the written sequence against the snapshot of
\* that moment, or in a step that changes the mode, and is then the clamp of
\* what it was.
C22_SnapshotChangeKeepsSelection ==
    [][ /\ (fields' # fields => selectedNodes' = selectedNodes)
        /\ (selectedNodes' # selectedNodes =>
               \/ /\ emitted' # <<>>
                  /\ fields' = fields
                  /\ selectedNodes' = Resolve(emitted'[Len(emitted')], fields)
               \/ /\ graphNodeSelectionMode' # graphNodeSelectionMode
                  /\ emitted' = <<>>
                  /\ selectedNodes' = Clamped(graphNodeSelectionMode', selectedNodes)) ]_vars

\* the snapshot changed and the resolved selection still holds a member that is
\* not in it
C22_Witness ==
    /\ Live
    /\ Called("fields")
    /\ selectedNodes = before.nodes
    /\ Len(selectedNodes) = 2
    /\ ~InSnapshot(selectedNodes)

\* C23: on a live coordinator, whenever toggleNodeSelected(id) or selectNode(id)
\* returns true in SINGLE or DOUBLE mode, the entity with identifier id is a
\* member of the resolved selection when the call returns.
C23_AsStated ==
    (Live /\ SingleCall /\ before.mode \in {SINGLE, DOUBLE} /\ ret = RetTrue) =>
        InSeq(call.arg, Fid(selectedNodes))

\* C23 as it holds: on a live coordinator, whenever toggleNodeSelected(id) or
\* selectNode(id) returns true in SINGLE or DOUBLE mode, [id] is what the call
\* wrote to the id channel, and when it returns the resolved selection is [the
\* entity id] if id is in the latest entity snapshot and empty if it is not.
C23_ReportedSelectionResolved ==
    (Live /\ SingleCall /\ before.mode \in {SINGLE, DOUBLE} /\ ret = RetTrue) =>
        /\ emitted = << <<call.arg>> >>
        /\ selectedNodes =
              IF FieldOf(call.arg) \in fields THEN << FieldOf(call.arg) >> ELSE <<>>

\* a DOUBLE toggle on an empty group reported true for an identifier without
\* entity, and the group stayed empty
C23_Witness ==
    /\ Live
    /\ Called("toggleNodeSelected")
    /\ before.mode = DOUBLE
    /\ before.nodes = <<>>
    /\ ret = RetTrue
    /\ FieldOf(call.arg) \notin fields
    /\ selectedNodes = <<>>

\* C24: when the most recently issued detection request completes while the
\* preview it opened is still displayed, every earlier request having been
\* cancelled before it was issued, its result (the empty list on error) is
\* committed to the preview and the pending state (displayPreview with a null
\* preview) ends. The then/catch callback is the only place that commits, so
\* the commit happens in the completion step or never.
C24_LatestResultCommitted ==
    ( /\ fdLast.name = "settle"
      /\ fdLast.req = Len(requests)
      /\ ~requests[fdLast.req].closed
      /\ \A q \in 1..(fdLast.req - 1) : requests[q].closed ) =>
        /\ fdLast.committed
        /\ ~(displayPreview /\ preview = PreviewNull)

\* C25: when a fireEvent(kind, e) call returns, the callbacks it has invoked
\* are exactly those registered for kind when the call started, in order and
\* once per registration, with e, whatever the invoked callbacks did to the
\* listener table; a callback added during the firing is not invoked by it.
C25_FiringInvokesRegistered ==
    (Called("fireEvent") /\ ~firing.active) =>
        invoked = invokeAll(registered[call.arg], call.node)

====
